---- MODULE Spec2Model ----
(***************************************************************************)
(* Model of scripts/tg_notify.py: send_telegram_file(), a one-shot CLI     *)
(* that uploads the first output/*.zip to Telegram with one HTTP POST.     *)
(*                                                                         *)
(* A Python str is a sequence of atoms (single characters, or a literal    *)
(* chunk of text taken as one atom); Python None is the value None below.  *)
(* An optional object (the response, the caught exception) is a sequence   *)
(* of length 0 or 1.  A dict is a function from its keys.                  *)
(***************************************************************************)
EXTENDS Integers, Sequences, FiniteSets, TLC

VARIABLES
    env,          \* os.environ: variable name -> str or None (unset)
    argv,         \* sys.argv[1:], the positional arguments
    listing,      \* the matches of output/*.zip, in enumeration order
    fs,           \* file name -> "ok" | "unreadable" | "unstatable"
    net,          \* what requests.post does: a response or an exception
    pc,           \* position of the run in send_telegram_file
    bot_token, chat_id, topic_id, event_label, version, run_url,
    files, file_path, data,
    fileOpen,     \* the handle f of `with open(file_path, "rb") as f`
    response,     \* <<>> or <<the response object>>
    exc,          \* <<>> or <<message of the exception in flight>>
    out,          \* lines printed to standard output
    stderr,       \* tracebacks the interpreter printed for uncaught exceptions
    exit_code,    \* NoExit while the process runs
    globbed,      \* glob.glob was called in this run
    opens,        \* number of open() calls in this run
    posts,        \* number of requests.post calls in this run
    path,         \* the positions this run went through
    runs,         \* number of the current process (1 = first invocation)
    prev          \* <<>> or <<summary of the previous process>>

inputs == <<env, argv, listing, fs, net>>
locals == <<bot_token, chat_id, topic_id, event_label, version, run_url,
            files, file_path, data, fileOpen, response, exc, out, stderr,
            exit_code, globbed, opens, posts, path>>
vars == <<inputs, pc, locals, runs, prev>>

----------------------------------------------------------------------------
(* Bounds *)
MaxLen == 2       \* longest topic id argument
MaxRuns == 2      \* invocations in a row

(* Program constants *)
None == <<"None">>
NoExit == -1
DefaultLabel == <<"New Yield">>
DefaultVersion == <<"Unknown">>
DefaultServer == <<"https://github.com">>

MsgNoCreds == "Error: TELEGRAM_BOT_TOKEN or TELEGRAM_CHAT_ID not set."
MsgNoFiles == "Error: No grain sacks (zip files) found in output/."
MsgSelecting == "Selecting yield: {file_name} ({file_size:.2f} MB)"
MsgTopic == "Targeting Topic ID: {topic_id}"
MsgDispatch == "Dispatching yield to Granary (Telegram)..."
MsgSuccess == "Yield stored successfully!"
MsgStorageFailed == "Storage failed: {response.status_code} - {response.text}"
MsgTransport == "Transport error: {e}"

FailureMsgs == {MsgNoCreds, MsgNoFiles, MsgStorageFailed, MsgTransport}

(* Input domains *)
Whitespace == {" ", "\t"}
Chars == {" ", "0", "7"}
StrUpTo(n) == UNION {[1..k -> Chars] : k \in 0..n}
CredValues == {None, <<>>, <<"T">>}
Versions == {None, <<"1.0">>}
EnvNames == {"TELEGRAM_BOT_TOKEN", "TELEGRAM_CHAT_ID", "META_HYBRID_VERSION",
             "GITHUB_REPOSITORY", "GITHUB_RUN_ID", "GITHUB_SERVER_URL"}
Environments ==
    {[n \in EnvNames |->
        CASE n = "TELEGRAM_BOT_TOKEN" -> t
          [] n = "TELEGRAM_CHAT_ID" -> c
          [] n = "META_HYBRID_VERSION" -> v
          [] n = "GITHUB_REPOSITORY" -> <<"owner/repo">>
          [] n = "GITHUB_RUN_ID" -> <<"42">>
          [] OTHER -> None] : t \in CredValues, c \in CredValues, v \in Versions}
Labels == {<<"Release">>}
Files == {"a.zip", "b.zip"}
FileKinds == {"ok", "unreadable", "unstatable"}
AllOk == [f \in Files |-> "ok"]
\* output/ is empty, holds a.zip, or holds b.zip (enumerated first) and a.zip
Directories ==
    {[listing |-> <<>>, fs |-> AllOk]}
    \cup {[listing |-> <<"a.zip">>, fs |-> [AllOk EXCEPT !["a.zip"] = k]] :
             k \in FileKinds}
    \cup {[listing |-> <<"b.zip", "a.zip">>, fs |-> [AllOk EXCEPT !["b.zip"] = k]] :
             k \in FileKinds}
FileBytes == [f \in Files |-> IF f = "a.zip" THEN 2097152 ELSE 1572864]
Responses == {[status_code |-> 200, text |-> "OK"],
              [status_code |-> 201, text |-> "Created"],
              [status_code |-> 403, text |-> "Forbidden"],
              [status_code |-> 500, text |-> ""]}
Exceptions == {"Read timed out. (read timeout=120)"}
NetOutcomes == [kind : {"response"}, response : Responses, error : {""}]
       \cup   [kind : {"raise"}, response : {[status_code |-> 0, text |-> ""]},
               error : Exceptions]

----------------------------------------------------------------------------
(* Pure helpers *)

\* truth value of a str-or-None: None and "" are falsy
Truthy(v) == v # None /\ v # <<>>

RECURSIVE LStrip(_)
LStrip(s) == IF s # <<>> /\ Head(s) \in Whitespace THEN LStrip(Tail(s)) ELSE s

RECURSIVE RStrip(_)
RStrip(s) == IF s # <<>> /\ s[Len(s)] \in Whitespace
             THEN RStrip(SubSeq(s, 1, Len(s) - 1)) ELSE s

\* str.strip()
Strip(s) == RStrip(LStrip(s))

\* os.environ.get(name, default)
EnvGet(name, default) == IF env[name] = None THEN default ELSE env[name]

\* sys.argv[i] if len(sys.argv) > i else default   (argv here is sys.argv[1:])
ArgOr(i, default) == IF Len(argv) + 1 > i THEN argv[i] ELSE default

\* file size in MB to two decimals, as hundredths
SizeCentiMB(f) == (FileBytes[f] * 100 + 524288) \div 1048576

\* line 50 with the comparison to "0" made on the stripped value
HasTopic_StripZero(t) == Truthy(t) /\ Strip(t) # <<>> /\ Strip(t) # <<"0">>

\* the condition of line 50
HasTopic(t) == Truthy(t) /\ Strip(t) # <<>> /\ t # <<"0">>

Line(msg, args) == [msg |-> msg, args |-> args]

----------------------------------------------------------------------------
(* The run *)

Goto(l) == pc' = l /\ path' = Append(path, l)

\* print(...)
Stdout(msg, args) == out' = Append(out, Line(msg, args))

\* sys.exit(code) reaching the top of the process, or the function returning
Exit(code) == Goto("done") /\ exit_code' = code

\* lines 7-11: read the credentials and the positional arguments
ReadConfig ==
    /\ pc = "start"
    /\ bot_token' = env["TELEGRAM_BOT_TOKEN"]
    /\ chat_id' = env["TELEGRAM_CHAT_ID"]
    /\ topic_id' = ArgOr(1, None)
    /\ event_label' = ArgOr(2, DefaultLabel)
    /\ Goto("check_creds")
    /\ UNCHANGED <<inputs, version, run_url, files, file_path, data, fileOpen,
                   response, exc, out, stderr, exit_code, globbed, opens,
                   posts, runs, prev>>

\* lines 13-15 with `and` in place of `or`
CheckCreds_BothMissing ==
    /\ pc = "check_creds"
    /\ IF ~Truthy(bot_token) /\ ~Truthy(chat_id)
       THEN Stdout(MsgNoCreds, <<>>) /\ Exit(1)
       ELSE Goto("read_meta") /\ UNCHANGED <<out, exit_code>>
    /\ UNCHANGED <<inputs, bot_token, chat_id, topic_id, event_label, version,
                   run_url, files, file_path, data, fileOpen, response, exc,
                   stderr, globbed, opens, posts, runs, prev>>

\* lines 13-15
CheckCreds ==
    /\ pc = "check_creds"
    /\ IF ~Truthy(bot_token) \/ ~Truthy(chat_id)
       THEN Stdout(MsgNoCreds, <<>>) /\ Exit(1)
       ELSE Goto("read_meta") /\ UNCHANGED <<out, exit_code>>
    /\ UNCHANGED <<inputs, bot_token, chat_id, topic_id, event_label, version,
                   run_url, files, file_path, data, fileOpen, response, exc,
                   stderr, globbed, opens, posts, runs, prev>>

\* lines 17-21
ReadMeta ==
    /\ pc = "read_meta"
    /\ version' = EnvGet("META_HYBRID_VERSION", DefaultVersion)
    /\ run_url' = EnvGet("GITHUB_SERVER_URL", DefaultServer) \o <<"/">>
                  \o EnvGet("GITHUB_REPOSITORY", <<>>) \o <<"/actions/runs/">>
                  \o EnvGet("GITHUB_RUN_ID", <<>>)
    /\ Goto("glob")
    /\ UNCHANGED <<inputs, bot_token, chat_id, topic_id, event_label, files,
                   file_path, data, fileOpen, response, exc, out, stderr,
                   exit_code, globbed, opens, posts, runs, prev>>

\* lines 23-26 with sys.exit(0) for the empty directory
Glob_ExitZero ==
    /\ pc = "glob"
    /\ files' = listing
    /\ globbed' = TRUE
    /\ IF listing = <<>>
       THEN Stdout(MsgNoFiles, <<>>) /\ Exit(0)
       ELSE Goto("select") /\ UNCHANGED <<out, exit_code>>
    /\ UNCHANGED <<inputs, bot_token, chat_id, topic_id, event_label, version,
                   run_url, file_path, data, fileOpen, response, exc, stderr,
                   opens, posts, runs, prev>>

\* lines 23-26
Glob ==
    /\ pc = "glob"
    /\ files' = listing
    /\ globbed' = TRUE
    /\ IF listing = <<>>
       THEN Stdout(MsgNoFiles, <<>>) /\ Exit(1)
       ELSE Goto("select") /\ UNCHANGED <<out, exit_code>>
    /\ UNCHANGED <<inputs, bot_token, chat_id, topic_id, event_label, version,
                   run_url, file_path, data, fileOpen, response, exc, stderr,
                   opens, posts, runs, prev>>

\* lines 28-32: os.path.getsize is outside the try block, so an OSError from
\* it is uncaught: the interpreter prints a traceback and exits with 1
Select ==
    /\ pc = "select"
    /\ file_path' = files[1]
    /\ IF fs[files[1]] = "unstatable"
       THEN /\ stderr' = Append(stderr, "Traceback: FileNotFoundError")
            /\ Exit(1)
            /\ UNCHANGED out
       ELSE /\ Stdout(MsgSelecting, <<files[1], SizeCentiMB(files[1])>>)
            /\ Goto("build")
            /\ UNCHANGED <<stderr, exit_code>>
    /\ UNCHANGED <<inputs, bot_token, chat_id, topic_id, event_label, version,
                   run_url, files, data, fileOpen, response, exc, globbed,
                   opens, posts, runs, prev>>

\* lines 36-42
Caption == <<event_label, version, <<file_path>>,
             <<SizeCentiMB(file_path)>>, run_url>>

\* lines 44-48
BaseData == [chat_id |-> chat_id, caption |-> Caption, parse_mode |-> "HTML"]

\* lines 50-51
WithTopic(d, t) == IF HasTopic(t)
                   THEN [k \in DOMAIN d \cup {"message_thread_id"} |->
                            IF k = "message_thread_id" THEN t ELSE d[k]]
                   ELSE d

\* lines 34-54
Build ==
    /\ pc = "build"
    /\ data' = WithTopic(BaseData, topic_id)
    /\ out' = IF HasTopic(topic_id)
              THEN out \o <<Line(MsgTopic, <<topic_id>>), Line(MsgDispatch, <<>>)>>
              ELSE Append(out, Line(MsgDispatch, <<>>))
    /\ Goto("open")
    /\ UNCHANGED <<inputs, bot_token, chat_id, topic_id, event_label, version,
                   run_url, files, file_path, fileOpen, response, exc, stderr,
                   exit_code, globbed, opens, posts, runs, prev>>

\* line 57: open(file_path, "rb") inside the try block
OpenFile ==
    /\ pc = "open"
    /\ opens' = opens + 1
    /\ IF fs[file_path] = "ok"
       THEN fileOpen' = TRUE /\ Goto("post") /\ UNCHANGED exc
       ELSE exc' = <<"Permission denied">> /\ Goto("except") /\ UNCHANGED fileOpen
    /\ UNCHANGED <<inputs, bot_token, chat_id, topic_id, event_label, version,
                   run_url, files, file_path, data, response, out, stderr,
                   exit_code, globbed, posts, runs, prev>>

\* lines 58-59 without the try block: the exception is uncaught
Post_Uncaught ==
    /\ pc = "post"
    /\ posts' = posts + 1
    /\ fileOpen' = FALSE
    /\ IF net.kind = "response"
       THEN /\ response' = <<net.response>> /\ Goto("status")
            /\ UNCHANGED <<exc, stderr, exit_code>>
       ELSE /\ exc' = <<net.error>> /\ Exit(1)
            /\ stderr' = Append(stderr, "Traceback: " \o net.error)
            /\ UNCHANGED response
    /\ UNCHANGED <<inputs, bot_token, chat_id, topic_id, event_label, version,
                   run_url, files, file_path, data, out, globbed, opens, runs,
                   prev>>

\* lines 58-59 followed by a removal of the uploaded artifact
Post_Consume ==
    /\ pc = "post"
    /\ posts' = posts + 1
    /\ fileOpen' = FALSE
    /\ listing' = Tail(listing)
    /\ IF net.kind = "response"
       THEN response' = <<net.response>> /\ Goto("status") /\ UNCHANGED exc
       ELSE exc' = <<net.error>> /\ Goto("except") /\ UNCHANGED response
    /\ UNCHANGED <<env, argv, fs, net, bot_token, chat_id, topic_id,
                   event_label, version, run_url, files, file_path, data, out,
                   stderr, exit_code, globbed, opens, runs, prev>>

\* lines 57-59 with f = open(...) and f.close() after the call, no with block
Post_Leak ==
    /\ pc = "post"
    /\ posts' = posts + 1
    /\ IF net.kind = "response"
       THEN /\ response' = <<net.response>> /\ Goto("status")
            /\ fileOpen' = FALSE /\ UNCHANGED exc
       ELSE /\ exc' = <<net.error>> /\ Goto("except")
            /\ UNCHANGED <<response, fileOpen>>
    /\ UNCHANGED <<inputs, bot_token, chat_id, topic_id, event_label, version,
                   run_url, files, file_path, data, out, stderr, exit_code,
                   globbed, opens, runs, prev>>

\* lines 58-59 and the exit of the with block, which closes f on both paths
Post ==
    /\ pc = "post"
    /\ posts' = posts + 1
    /\ fileOpen' = FALSE
    /\ IF net.kind = "response"
       THEN response' = <<net.response>> /\ Goto("status") /\ UNCHANGED exc
       ELSE exc' = <<net.error>> /\ Goto("except") /\ UNCHANGED response
    /\ UNCHANGED <<inputs, bot_token, chat_id, topic_id, event_label, version,
                   run_url, files, file_path, data, out, stderr, exit_code,
                   globbed, opens, runs, prev>>

\* lines 61-65 accepting every 2xx status
CheckStatus_Any2xx ==
    /\ pc = "status"
    /\ IF response[1].status_code >= 200 /\ response[1].status_code < 300
       THEN Stdout(MsgSuccess, <<>>) /\ Exit(0)
       ELSE /\ Stdout(MsgStorageFailed,
                      <<ToString(response[1].status_code), response[1].text>>)
            /\ Exit(1)
    /\ UNCHANGED <<inputs, bot_token, chat_id, topic_id, event_label, version,
                   run_url, files, file_path, data, fileOpen, response, exc,
                   stderr, globbed, opens, posts, runs, prev>>

\* lines 61-65 printing the status code without the body
CheckStatus_NoBody ==
    /\ pc = "status"
    /\ IF response[1].status_code = 200
       THEN Stdout(MsgSuccess, <<>>) /\ Exit(0)
       ELSE /\ Stdout(MsgStorageFailed, <<ToString(response[1].status_code)>>)
            /\ Exit(1)
    /\ UNCHANGED <<inputs, bot_token, chat_id, topic_id, event_label, version,
                   run_url, files, file_path, data, fileOpen, response, exc,
                   stderr, globbed, opens, posts, runs, prev>>

\* lines 61-65: sys.exit(1) raises SystemExit, which is not an Exception, so
\* the handler of line 67 does not see it
CheckStatus ==
    /\ pc = "status"
    /\ IF response[1].status_code = 200
       THEN Stdout(MsgSuccess, <<>>) /\ Exit(0)
       ELSE /\ Stdout(MsgStorageFailed,
                     <<ToString(response[1].status_code), response[1].text>>)
            /\ Exit(1)
    /\ UNCHANGED <<inputs, bot_token, chat_id, topic_id, event_label, version,
                   run_url, files, file_path, data, fileOpen, response, exc,
                   stderr, globbed, opens, posts, runs, prev>>

\* lines 67-69 trying the send a second time before giving up
Except_Retry ==
    /\ pc = "except"
    /\ IF opens < 2
       THEN Goto("open") /\ UNCHANGED <<out, exit_code>>
       ELSE Stdout(MsgTransport, <<exc[1]>>) /\ Exit(1)
    /\ UNCHANGED <<inputs, bot_token, chat_id, topic_id, event_label, version,
                   run_url, files, file_path, data, fileOpen, response, exc,
                   stderr, globbed, opens, posts, runs, prev>>

\* lines 67-69
Except ==
    /\ pc = "except"
    /\ Stdout(MsgTransport, <<exc[1]>>)
    /\ Exit(1)
    /\ UNCHANGED <<inputs, bot_token, chat_id, topic_id, event_label, version,
                   run_url, files, file_path, data, fileOpen, response, exc,
                   stderr, globbed, opens, posts, runs, prev>>

\* what an observer keeps of a finished process
Summary == [exit_code |-> exit_code, path |-> path, data |-> data,
            out |-> out, posts |-> posts]

\* lines 71-72: the script is invoked again, as a new process
Invoke ==
    /\ pc = "done"
    /\ runs < MaxRuns
    /\ runs' = runs + 1
    /\ prev' = <<Summary>>
    /\ pc' = "start"
    /\ bot_token' = None /\ chat_id' = None /\ topic_id' = None
    /\ event_label' = None /\ version' = None /\ run_url' = None
    /\ files' = <<>> /\ file_path' = "" /\ data' = <<>>
    /\ fileOpen' = FALSE /\ response' = <<>> /\ exc' = <<>>
    /\ out' = <<>> /\ stderr' = <<>> /\ exit_code' = NoExit
    /\ globbed' = FALSE /\ opens' = 0 /\ posts' = 0 /\ path' = <<>>
    /\ UNCHANGED inputs

Init ==
    /\ env \in Environments
    /\ argv \in {<<>>} \cup {<<t>> : t \in StrUpTo(MaxLen)}
                \cup {<<t, l>> : t \in StrUpTo(MaxLen), l \in Labels}
    /\ \E d \in Directories : listing = d.listing /\ fs = d.fs
    /\ net \in NetOutcomes
    /\ pc = "start"
    /\ bot_token = None /\ chat_id = None /\ topic_id = None
    /\ event_label = None /\ version = None /\ run_url = None
    /\ files = <<>> /\ file_path = "" /\ data = <<>>
    /\ fileOpen = FALSE /\ response = <<>> /\ exc = <<>>
    /\ out = <<>> /\ stderr = <<>> /\ exit_code = NoExit
    /\ globbed = FALSE /\ opens = 0 /\ posts = 0 /\ path = <<>>
    /\ runs = 1
    /\ prev = <<>>

Next ==
    \/ ReadConfig
    \/ CheckCreds
    \/ ReadMeta
    \/ Glob
    \/ Select
    \/ Build
    \/ OpenFile
    \/ Post
    \/ CheckStatus
    \/ Except
    \/ Invoke

Spec == Init /\ [][Next]_vars

----------------------------------------------------------------------------
(* Properties *)

Done == pc = "done"
CredsMissing == \/ env["TELEGRAM_BOT_TOKEN"] \in {None, <<>>}
                \/ env["TELEGRAM_CHAT_ID"] \in {None, <<>>}
LastLine == out[Len(out)]
Printed(msg) == \E i \in 1..Len(out) : out[i].msg = msg
Visited(l) == \E i \in 1..Len(path) : path[i] = l
IsBlank(s) == \A i \in 1..Len(s) : s[i] \in Whitespace
Count(msgs) == Cardinality({i \in 1..Len(out) : out[i].msg \in msgs})

\* C1: a finished run has exit code 0 exactly when the POST was performed
\* and answered with status 200, and then the success message was printed;
\* every other finished run has exit code 1.
C1_ExitZeroIffStatus200 ==
    Done =>
      /\ exit_code \in {0, 1}
      /\ exit_code = 0 <=>
            (posts = 1 /\ net.kind = "response" /\ net.response.status_code = 200)
      /\ exit_code = 0 => LastLine = Line(MsgSuccess, <<>>)
      /\ exit_code = 1 => ~Printed(MsgSuccess)

C1_Witness ==
    Done /\ exit_code = 0 /\ posts = 1 /\ net.response.status_code = 200

\* C2: when a credential is unset or empty, the run never globs, never opens
\* a file and never posts, and it ends with exit code 1 after printing the
\* credential diagnostic, whatever the arguments and the directory are.
C2_MissingCredentialFailsFast ==
    CredsMissing =>
      /\ ~globbed /\ opens = 0 /\ posts = 0
      /\ pc \in {"start", "check_creds", "done"}
      /\ Done => exit_code = 1 /\ out = <<Line(MsgNoCreds, <<>>)>>

C2_Witness ==
    /\ Done /\ CredsMissing /\ exit_code = 1
    /\ env["TELEGRAM_BOT_TOKEN"] = <<"T">> /\ env["TELEGRAM_CHAT_ID"] = <<>>
    /\ Len(argv) = 2 /\ listing # <<>> /\ ~globbed

\* C3: with both credentials present and no match of output/*.zip, the run
\* opens no file and posts nothing, and it ends with exit code 1 after
\* printing the no-artifact diagnostic.
C3_NoArtifactFailsBeforeSend ==
    (~CredsMissing /\ listing = <<>>) =>
      /\ opens = 0 /\ posts = 0 /\ ~fileOpen
      /\ Done => exit_code = 1 /\ out = <<Line(MsgNoFiles, <<>>)>>

C3_Witness ==
    Done /\ ~CredsMissing /\ listing = <<>> /\ globbed /\ exit_code = 1

\* C4: once the payload is built, it has the field message_thread_id exactly
\* when argument 1 is given, is not blank and is not "0"; the field then holds
\* the argument as given, untrimmed.
C4_ThreadFieldIffRealTopic ==
    Visited("open") =>
      /\ "message_thread_id" \in DOMAIN data <=>
            (Len(argv) >= 1 /\ ~IsBlank(argv[1]) /\ argv[1] # <<"0">>)
      /\ "message_thread_id" \in DOMAIN data => data["message_thread_id"] = argv[1]
      /\ DOMAIN data \ {"message_thread_id"} = {"chat_id", "caption", "parse_mode"}

C4_Witness ==
    /\ posts = 1 /\ Len(argv) >= 1 /\ argv[1] = <<" ", "0">>
    /\ "message_thread_id" \in DOMAIN data
    /\ data["message_thread_id"] = <<" ", "0">>

\* C5: a run never posts more than once; a finished run has posted exactly
\* once when both pre-checks passed and the artifact could be opened, and
\* not at all otherwise.
C5_AtMostOnePost ==
    /\ posts <= 1
    /\ Done => posts = IF /\ ~CredsMissing
                          /\ listing # <<>>
                          /\ fs[listing[1]] = "ok"
                       THEN 1 ELSE 0

C5_Witness ==
    Done /\ posts = 1 /\ exc # <<>> /\ exit_code = 1

\* C6: a response with a status other than 200 ends the run with exit code 1
\* and a last printed line that carries the status code and the body text.
C6_RejectionReportsStatusAndBody ==
    (Done /\ response # <<>> /\ net.response.status_code # 200) =>
      /\ exit_code = 1
      /\ LastLine.msg = MsgStorageFailed
      /\ LastLine.args = <<ToString(net.response.status_code), net.response.text>>

C6_Witness ==
    /\ Done /\ response # <<>> /\ exit_code = 1
    /\ LastLine.args = <<"403", "Forbidden">>

\* C7: an exception raised by the network call is caught: the run prints
\* the transport-error diagnostic with the exception's message, exits with
\* code 1, and the interpreter reports no uncaught exception.
C7_SendExceptionIsCaught ==
    (Done /\ posts = 1 /\ net.kind = "raise") =>
      /\ exit_code = 1
      /\ LastLine = Line(MsgTransport, <<net.error>>)
      /\ stderr = <<>>

C7_Witness ==
    Done /\ posts = 1 /\ net.kind = "raise" /\ exc = <<net.error>>

\* C8: a second invocation with the same environment, arguments, directory
\* and remote answer goes through the same positions, builds the same
\* payload, prints the same lines and ends with the same exit code.
C8_SecondRunRepeatsFirst ==
    (Done /\ prev # <<>>) => Summary = prev[1]

C8_Witness ==
    Done /\ runs = 2 /\ prev # <<>> /\ prev[1].posts = 1 /\ posts = 1

\* C9: the artifact handle is open only while the POST is in progress: it
\* is opened after both pre-checks, and it is closed when the status is
\* examined, in the exception handler and in every terminal state.
C9_HandleScopedToPost ==
    /\ fileOpen => (pc = "post" /\ ~CredsMissing /\ Visited("select") /\ opens = 1)
    /\ pc \in {"status", "except", "done"} => ~fileOpen

C9_Witness ==
    Done /\ opens = 1 /\ posts = 1 /\ exc # <<>> /\ ~fileOpen

\* C10: every run that ends with exit code 1 has printed exactly one failure
\* diagnostic, as its last line, and has not printed the success message.
C10_OneDiagnosticPerFailure ==
    (Done /\ exit_code = 1) =>
      /\ Count(FailureMsgs) = 1
      /\ LastLine.msg \in FailureMsgs
      /\ ~Printed(MsgSuccess)

====
